---- MODULE Spec2Model ----
(***************************************************************************)
(* AxumSession (src/src/session.rs): the per-request session handle, the   *)
(* shared in-memory session table it works on, and the store around it.    *)
(*                                                                         *)
(* The handle's code is in src/src/session.rs.  The layer that inserts a   *)
(* record for a handle's id, the reconciliation pass and the durable       *)
(* backend are not in that file; they follow spec.md sections 3, 4.2, 6.   *)
(***************************************************************************)
EXTENDS Integers, Sequences, FiniteSets, TLC

(***************************************************************************)
(* Bounds of the model.                                                    *)
(***************************************************************************)
\* Size of the id space Uuid::new_v4() draws from.
NumUuids == 2
\* Number of requests in flight, each holding its own handle.
NumRequests == 2

Uuids == 1..NumUuids
Requests == 1..NumRequests
\* The requests whose handlers run, and the ids they meet, where the records carry data.
Handles == {1, 2}
Tokens == {1, 2}
\* Keys handed to get/set/remove.
Keys == {"a", "b"}

(***************************************************************************)
(* Values and their JSON text (serde_json::to_string / from_str).          *)
(* A text is a sequence of one-character strings.                          *)
(***************************************************************************)
I64(n) == [ty |-> "i64", cls |-> "finite", n |-> n, s |-> <<>>]
F64(n) == [ty |-> "f64", cls |-> "finite", n |-> n, s |-> <<>>]
F64Inf == [ty |-> "f64", cls |-> "inf", n |-> 0, s |-> <<>>]
Bool(b) == [ty |-> "bool", cls |-> "finite", n |-> IF b THEN 1 ELSE 0, s |-> <<>>]
Str(s) == [ty |-> "String", cls |-> "finite", n |-> 0, s |-> s]
\* A value whose Serialize impl fails (e.g. a map with non-string keys).
Unserializable == [ty |-> "map", cls |-> "error", n |-> 0, s |-> <<>>]
Unit == [ty |-> "unit", cls |-> "finite", n |-> 0, s |-> <<>>]

None == [some |-> FALSE, val |-> Unit]
Some(v) == [some |-> TRUE, val |-> v]

Digits == <<"0", "1", "2", "3", "4", "5", "6", "7", "8", "9">>
NullText == <<"n", "u", "l", "l">>
TrueText == <<"t", "r", "u", "e">>
FalseText == <<"f", "a", "l", "s", "e">>
Quote == "\""
Backslash == "\\"

RECURSIVE fmt_u64(_)
fmt_u64(n) ==
  IF n < 10 THEN <<Digits[n + 1]>>
  ELSE fmt_u64(n \div 10) \o <<Digits[(n % 10) + 1]>>

fmt_i64(n) == IF n < 0 THEN <<"-">> \o fmt_u64(0 - n) ELSE fmt_u64(n)

RECURSIVE escape_str(_)
escape_str(s) ==
  IF s = <<>> THEN <<>>
  ELSE (IF Head(s) \in {Quote, Backslash} THEN <<Backslash, Head(s)>> ELSE <<Head(s)>>)
       \o escape_str(Tail(s))

\* serde_json::to_string: Ok(text) or Err.
to_string(v) ==
  CASE v.ty = "i64" -> [ok |-> TRUE, text |-> fmt_i64(v.n)]
    [] v.ty = "f64" ->
         IF v.cls = "finite" THEN [ok |-> TRUE, text |-> fmt_i64(v.n) \o <<".", "0">>]
         ELSE [ok |-> TRUE, text |-> NullText]
    [] v.ty = "bool" -> [ok |-> TRUE, text |-> IF v.n = 1 THEN TrueText ELSE FalseText]
    [] v.ty = "String" -> [ok |-> TRUE, text |-> <<Quote>> \o escape_str(v.s) \o <<Quote>>]
    [] v.ty = "unit" -> [ok |-> TRUE, text |-> NullText]
    [] OTHER -> [ok |-> FALSE, text |-> <<>>]

DigitOf(c) == CHOOSE d \in 0..9 : Digits[d + 1] = c
IsDigit(c) == \E d \in 0..9 : Digits[d + 1] = c
AllDigits(t) == \A i \in 1..Len(t) : IsDigit(t[i])

RECURSIVE parse_u64(_)
parse_u64(t) ==
  IF Len(t) = 1 THEN DigitOf(t[1])
  ELSE 10 * parse_u64(SubSeq(t, 1, Len(t) - 1)) + DigitOf(t[Len(t)])

\* A JSON integer: an optional minus, then digits without a leading zero.
IsIntText(t) ==
  LET d == IF t # <<>> /\ Head(t) = "-" THEN Tail(t) ELSE t
  IN  /\ d # <<>>
      /\ AllDigits(d)
      /\ (Len(d) > 1 => d[1] # "0")
IntOfText(t) == IF Head(t) = "-" THEN 0 - parse_u64(Tail(t)) ELSE parse_u64(t)

\* Position of the decimal point, 0 when there is none.
DotAt(t) == IF \E i \in 1..Len(t) : t[i] = "." THEN CHOOSE i \in 1..Len(t) : t[i] = "." ELSE 0
\* A JSON number with a fraction of zeros only (the floats of this model are whole).
IsWholeFloatText(t) ==
  /\ DotAt(t) > 1
  /\ DotAt(t) < Len(t)
  /\ IsIntText(SubSeq(t, 1, DotAt(t) - 1))
  /\ \A i \in (DotAt(t) + 1)..Len(t) : t[i] = "0"

RECURSIVE unescape_str(_)
\* The body of a JSON string; ok is FALSE on a bare quote or a dangling backslash.
unescape_str(t) ==
  IF t = <<>> THEN [ok |-> TRUE, s |-> <<>>]
  ELSE IF Head(t) = Quote THEN [ok |-> FALSE, s |-> <<>>]
  ELSE IF Head(t) = Backslash THEN
    IF Len(t) < 2 \/ t[2] \notin {Quote, Backslash} THEN [ok |-> FALSE, s |-> <<>>]
    ELSE LET r == unescape_str(SubSeq(t, 3, Len(t)))
         IN  [ok |-> r.ok, s |-> IF r.ok THEN <<t[2]>> \o r.s ELSE <<>>]
  ELSE LET r == unescape_str(Tail(t))
       IN  [ok |-> r.ok, s |-> IF r.ok THEN <<Head(t)>> \o r.s ELSE <<>>]

\* serde_json::from_str::<T>(text).ok()
from_str(ty, t) ==
  CASE ty = "i64" -> IF IsIntText(t) THEN Some(I64(IntOfText(t))) ELSE None
    [] ty = "f64" ->
         IF IsIntText(t) THEN Some(F64(IntOfText(t)))
         ELSE IF IsWholeFloatText(t) THEN Some(F64(IntOfText(SubSeq(t, 1, DotAt(t) - 1))))
         ELSE None
    [] ty = "bool" ->
         IF t = TrueText THEN Some(Bool(TRUE))
         ELSE IF t = FalseText THEN Some(Bool(FALSE))
         ELSE None
    [] ty = "String" ->
         IF Len(t) >= 2 /\ t[1] = Quote /\ t[Len(t)] = Quote
         THEN LET r == unescape_str(SubSeq(t, 2, Len(t) - 1))
              IN  IF r.ok THEN Some(Str(r.s)) ELSE None
         ELSE None
    [] ty = "unit" -> IF t = NullText THEN Some(Unit) ELSE None
    [] OTHER -> None

\* Values handed to set, and the types asked of get.
Values == {I64(0 - 7), F64Inf}
Types == {"i64", "f64"}

(***************************************************************************)
(* Ids, cookies and session records.                                       *)
(***************************************************************************)
\* Uuid::to_string: the canonical text used as table key and cookie value.
UuidString(u) == <<"u", "-">> \o fmt_u64(u)
\* Uuid::parse_str(..).ok()
parse_str(t) ==
  IF Len(t) > 2 /\ t[1] = "u" /\ t[2] = "-" /\ IsIntText(SubSeq(t, 3, Len(t)))
  THEN [some |-> TRUE, uuid |-> parse_u64(SubSeq(t, 3, Len(t)))]
  ELSE [some |-> FALSE, uuid |-> 0]

NoCookie == [present |-> FALSE, value |-> <<>>]
Cookie(t) == [present |-> TRUE, value |-> t]
\* What a client may present: nothing, text that is no id, or any well-formed id.
Cookies(ids) == {NoCookie, Cookie(<<"x">>)} \cup {Cookie(UuidString(u)) : u \in ids}

NoId == 0
EmptyData == [k \in {} |-> <<>>]
\* AxumSessionData of a session that has just been created.
NewSessionData == [data |-> EmptyData, destroy |-> FALSE, longterm |-> FALSE, storable |-> TRUE]

VARIABLES
  persistent,  \* store.is_persistent(): fixed by the configuration
  table,       \* store.inner: token text -> AxumSessionData
  backend,     \* durable records: token text -> data
  pc,          \* where each request is: "idle", "mint" (in the loop of new), "resolved" or
               \* "minted" (new has returned the handle), "ready" (the handler runs),
               \* "clear_store" (inside clear_all), "panicked"
  id,          \* the id of each request's handle (AxumSession.id)
  last         \* ghost: the operation that ran last and what it returned

vars == <<persistent, table, backend, pc, id, last>>

\* op: the operation; tok: the id of the handle it ran on, if it is an operation of a
\* handle; res: the Option it returned; cnt: the count it returned or, for a backend
\* clear and a reconciliation pass, the number of durable records it deleted, and for
\* a set, the number of entries it inserted into the record's data.
Ran(name) == [op |-> name, tok |-> NoId, res |-> None, cnt |-> 0]
Returned(name, u, res) == [op |-> name, tok |-> u, res |-> res, cnt |-> 0]

Init ==
  /\ persistent \in BOOLEAN
  /\ table = [t \in {} |-> NewSessionData]
  /\ backend = [t \in {} |-> EmptyData]
  /\ pc = [r \in Requests |-> "idle"]
  /\ id = [r \in Requests |-> NoId]
  /\ last = Ran("init")

(***************************************************************************)
(* AxumSession::new                                                        *)
(***************************************************************************)
\* cookies.get_cookie(..).and_then(|c| Uuid::parse_str(c.value()).ok())
cookie_value(cookie) ==
  IF cookie.present THEN parse_str(cookie.value) ELSE [some |-> FALSE, uuid |-> 0]

contains_key(tbl, key) == key \in DOMAIN tbl

\* Lines 51-56: read the cookie; a parsed id is taken as it is.
new(r, cookie) ==
  /\ pc[r] = "idle"
  /\ LET value == cookie_value(cookie)
     IN  IF value.some
         THEN /\ id' = [id EXCEPT ![r] = value.uuid]
              /\ pc' = [pc EXCEPT ![r] = "resolved"]
         ELSE /\ id' = id
              /\ pc' = [pc EXCEPT ![r] = "mint"]
  /\ last' = Ran("new")
  /\ UNCHANGED <<persistent, table, backend>>

new_loop_reserving(r, token) ==
  /\ pc[r] = "mint"
  /\ IF ~contains_key(table, UuidString(token))
     THEN /\ id' = [id EXCEPT ![r] = token]
          /\ pc' = [pc EXCEPT ![r] = "minted"]
          /\ table' = [t \in DOMAIN table \cup {UuidString(token)} |->
                         IF t = UuidString(token) THEN NewSessionData ELSE table[t]]
          /\ last' = Ran("minted")
     ELSE /\ UNCHANGED <<id, pc, table>>
          /\ last' = Ran("collision")
  /\ UNCHANGED <<persistent, backend>>
new_loop_unchecked(r, token) ==
  /\ pc[r] = "mint"
  /\ id' = [id EXCEPT ![r] = token]
  /\ pc' = [pc EXCEPT ![r] = "minted"]
  /\ last' = Ran("minted")
  /\ UNCHANGED <<persistent, table, backend>>
\* Lines 57-63: one turn of the minting loop with token = Uuid::new_v4().
new_loop(r, token) ==
  /\ pc[r] = "mint"
  /\ IF ~contains_key(table, UuidString(token))
     THEN /\ id' = [id EXCEPT ![r] = token]
          /\ pc' = [pc EXCEPT ![r] = "minted"]
          /\ last' = Ran("minted")
     ELSE /\ UNCHANGED <<id, pc>>
          /\ last' = Ran("collision")
  /\ UNCHANGED <<persistent, table, backend>>

(***************************************************************************)
(* The layer around the handle (spec.md 3, 4.2): before the request's      *)
(* handler runs, the record of the handle's id is loaded or created.       *)
(***************************************************************************)
load_or_create(r) ==
  /\ pc[r] \in {"resolved", "minted"}
  /\ LET key == UuidString(id[r])
     IN  table' = IF key \in DOMAIN table THEN table
                  ELSE [t \in DOMAIN table \cup {key} |->
                          IF t # key THEN table[t]
                          ELSE IF persistent /\ key \in DOMAIN backend
                               THEN [NewSessionData EXCEPT !.data = backend[key]]
                               ELSE NewSessionData]
  /\ pc' = [pc EXCEPT ![r] = "ready"]
  /\ last' = Ran("load_or_create")
  /\ UNCHANGED <<persistent, backend, id>>

\* The request ends and its handle is dropped.
finish(r) ==
  /\ pc[r] = "ready"
  /\ pc' = [pc EXCEPT ![r] = "idle"]
  /\ id' = [id EXCEPT ![r] = NoId]
  /\ last' = Ran("finish")
  /\ UNCHANGED <<persistent, table, backend>>

(***************************************************************************)
(* AxumSession::tap and the closures the operations run under it.          *)
(* A closure yields the record as it leaves it and the value it returns.   *)
(***************************************************************************)
\* store.inner.get_mut(key): the record under exclusive access, if there is one.
get_mut(tbl, key) ==
  IF key \in DOMAIN tbl THEN [some |-> TRUE, sess |-> tbl[key]]
  ELSE [some |-> FALSE, sess |-> NewSessionData]

tap_or_insert(tbl, key, out) ==
  [table |-> [t \in DOMAIN tbl \cup {key} |-> IF t = key THEN out.sess ELSE tbl[t]],
   ret |-> out.ret]
tap_every(tbl, key, out) ==
  IF get_mut(tbl, key).some
  THEN [table |-> [t \in DOMAIN tbl |-> out.sess], ret |-> out.ret]
  ELSE [table |-> tbl, ret |-> None]
\* Lines 83-93: with a record, func's effect and result; without, a warning and None.
tap(tbl, key, out) ==
  IF get_mut(tbl, key).some
  THEN [table |-> [tbl EXCEPT ![key] = out.sess], ret |-> out.ret]
  ELSE [table |-> tbl, ret |-> None]

\* HashMap::insert / HashMap::remove on sess.data
insert_alone(data, key, text) == [k \in {key} |-> text]
insert(data, key, text) == [k \in DOMAIN data \cup {key} |-> IF k = key THEN text ELSE data[k]]
without(data, key) == [k \in DOMAIN data \ {key} |-> data[k]]

destroy_closure_unmarked(sess) == [sess |-> sess, ret |-> Some(I64(1))]
destroy_closure_clears(sess) ==
  [sess |-> [sess EXCEPT !.destroy = TRUE, !.data = EmptyData], ret |-> Some(I64(1))]
destroy_closure(sess) == [sess |-> [sess EXCEPT !.destroy = TRUE], ret |-> Some(I64(1))]
set_longterm_closure(sess, longterm) ==
  [sess |-> [sess EXCEPT !.longterm = longterm], ret |-> Some(I64(1))]
set_store_closure_ignored(sess, storable) == [sess |-> sess, ret |-> Some(I64(1))]
set_store_closure(sess, storable) ==
  [sess |-> [sess EXCEPT !.storable = storable], ret |-> Some(I64(1))]
get_closure_purge(sess, key, ty) ==
  [sess |-> IF key \in DOMAIN sess.data /\ from_str(ty, sess.data[key]) = None
            THEN [sess EXCEPT !.data = without(@, key)] ELSE sess,
   ret |-> IF key \in DOMAIN sess.data THEN from_str(ty, sess.data[key]) ELSE None]
get_closure(sess, key, ty) ==
  [sess |-> sess,
   ret |-> IF key \in DOMAIN sess.data THEN from_str(ty, sess.data[key]) ELSE None]
\* Line 166: serde_json::to_string(&value).unwrap_or_else(|_| "".to_string())
set_value(value) == IF to_string(value).ok THEN to_string(value).text ELSE <<>>
\* wrote: whether the closure called sess.data.insert.
set_closure_if_absent(sess, key, text) ==
  [sess |-> IF key \in DOMAIN sess.data THEN sess
            ELSE [sess EXCEPT !.data = insert(@, key, text)],
   ret |-> Some(I64(1)),
   wrote |-> key \notin DOMAIN sess.data]
set_closure_always(sess, key, text) ==
  [sess |-> [sess EXCEPT !.data = insert(@, key, text)],
   ret |-> Some(I64(1)),
   wrote |-> TRUE]
set_closure(sess, key, text) ==
  [sess |-> IF key \in DOMAIN sess.data /\ sess.data[key] = text THEN sess
            ELSE [sess EXCEPT !.data = insert(@, key, text)],
   ret |-> Some(I64(1)),
   wrote |-> ~(key \in DOMAIN sess.data /\ sess.data[key] = text)]
remove_closure_kept(sess, key) ==
  [sess |-> sess,
   ret |-> IF key \in DOMAIN sess.data THEN Some(Str(sess.data[key])) ELSE None]
remove_closure(sess, key) ==
  [sess |-> [sess EXCEPT !.data = without(@, key)],
   ret |-> IF key \in DOMAIN sess.data THEN Some(Str(sess.data[key])) ELSE None]

\* What each operation does to the table tbl through the handle with table key `key`,
\* and what tap returns to it.
destroy_tap(tbl, key) == tap(tbl, key, destroy_closure(get_mut(tbl, key).sess))
set_longterm_tap(tbl, key, longterm) ==
  tap(tbl, key, set_longterm_closure(get_mut(tbl, key).sess, longterm))
set_store_tap(tbl, key, storable) ==
  tap(tbl, key, set_store_closure(get_mut(tbl, key).sess, storable))
get_tap(tbl, key, k, ty) == tap(tbl, key, get_closure(get_mut(tbl, key).sess, k, ty))
set_tap(tbl, key, k, value) ==
  tap(tbl, key, set_closure(get_mut(tbl, key).sess, k, set_value(value)))
remove_tap(tbl, key, k) == tap(tbl, key, remove_closure(get_mut(tbl, key).sess, k))
\* Whether set, run on tbl through the handle with table key `key`, calls insert.
set_wrote(tbl, key, k, value) ==
  /\ get_mut(tbl, key).some
  /\ set_closure(get_mut(tbl, key).sess, k, set_value(value)).wrote

\* The table key of request r's handle: self.id.0.to_string()
Key(r) == UuidString(id[r])

destroy(r) ==
  /\ pc[r] = "ready"
  /\ table' = destroy_tap(table, Key(r)).table
  /\ last' = Returned("destroy", id[r], destroy_tap(table, Key(r)).ret)
  /\ UNCHANGED <<persistent, backend, pc, id>>

set_longterm(r, longterm) ==
  /\ pc[r] = "ready"
  /\ table' = set_longterm_tap(table, Key(r), longterm).table
  /\ last' = Returned("set_longterm", id[r], set_longterm_tap(table, Key(r), longterm).ret)
  /\ UNCHANGED <<persistent, backend, pc, id>>

set_store(r, storable) ==
  /\ pc[r] = "ready"
  /\ table' = set_store_tap(table, Key(r), storable).table
  /\ last' = Returned("set_store", id[r], set_store_tap(table, Key(r), storable).ret)
  /\ UNCHANGED <<persistent, backend, pc, id>>

get(r, key, ty) ==
  /\ pc[r] = "ready"
  /\ table' = get_tap(table, Key(r), key, ty).table
  /\ last' = Returned("get", id[r], get_tap(table, Key(r), key, ty).ret)
  /\ UNCHANGED <<persistent, backend, pc, id>>

set(r, key, value) ==
  /\ pc[r] = "ready"
  /\ table' = set_tap(table, Key(r), key, value).table
  /\ last' = [Returned("set", id[r], set_tap(table, Key(r), key, value).ret) EXCEPT
                !.cnt = IF set_wrote(table, Key(r), key, value) THEN 1 ELSE 0]
  /\ UNCHANGED <<persistent, backend, pc, id>>

remove(r, key) ==
  /\ pc[r] = "ready"
  /\ table' = remove_tap(table, Key(r), key).table
  /\ last' = Returned("remove", id[r], remove_tap(table, Key(r), key).ret)
  /\ UNCHANGED <<persistent, backend, pc, id>>

(***************************************************************************)
(* clear_all and count, and the store calls they make.                     *)
(***************************************************************************)
clear_data_every(tbl, key) == [t \in DOMAIN tbl |-> [tbl[t] EXCEPT !.data = EmptyData]]
\* Lines 195-197: instance.data.clear() under get_mut, nothing without a record.
clear_data(tbl, key) ==
  IF get_mut(tbl, key).some THEN [tbl EXCEPT ![key].data = EmptyData] ELSE tbl

\* store.clear_store(): Ok and every durable record gone, or Err and nothing done.
store_clear_store(bk, ok) ==
  [ok |-> ok, backend |-> IF ok THEN [t \in {} |-> EmptyData] ELSE bk]
\* store.count(): Ok(number of durable records) or Err.
store_count(bk, ok) == [ok |-> ok, n |-> IF ok THEN Cardinality(DOMAIN bk) ELSE 0]

\* Lines 195-199: the in-memory clear, then the test of is_persistent().
clear_all(r) ==
  /\ pc[r] = "ready"
  /\ table' = clear_data(table, Key(r))
  /\ pc' = [pc EXCEPT ![r] = IF persistent THEN "clear_store" ELSE "ready"]
  /\ last' = Returned("clear_all", id[r], None)
  /\ UNCHANGED <<persistent, backend, id>>

\* Line 200: self.store.clear_store().await.unwrap()
clear_all_store(r, ok) ==
  /\ pc[r] = "clear_store"
  /\ LET res == store_clear_store(backend, ok)
     IN  /\ backend' = res.backend
         /\ pc' = [pc EXCEPT ![r] = IF res.ok THEN "ready" ELSE "panicked"]
         /\ id' = [id EXCEPT ![r] = IF res.ok THEN @ ELSE NoId]
         /\ last' = [Returned("clear_store", id[r], None) EXCEPT
                       !.cnt = Cardinality(DOMAIN backend \ DOMAIN res.backend)]
  /\ UNCHANGED <<persistent, table>>

count_value_live(is_persistent, tbl, bk, ok) ==
  IF is_persistent
  THEN (IF store_count(bk, ok).ok THEN store_count(bk, ok).n ELSE 0)
  ELSE Cardinality({t \in DOMAIN tbl : ~tbl[t].destroy})
count_value_len(is_persistent, tbl, bk, ok) == Cardinality(DOMAIN tbl)
\* Lines 214-220
count_value(is_persistent, tbl, bk, ok) ==
  IF is_persistent
  THEN (IF store_count(bk, ok).ok THEN store_count(bk, ok).n ELSE 0)
  ELSE Cardinality(DOMAIN tbl)

count(r, ok) ==
  /\ pc[r] = "ready"
  /\ (~persistent => ok)
  /\ last' = [Returned("count", id[r], None) EXCEPT
                !.cnt = count_value(persistent, table, backend, ok)]
  /\ UNCHANGED <<persistent, table, backend, pc, id>>

(***************************************************************************)
(* The reconciliation pass (spec.md 4.2), taken as one step.               *)
(***************************************************************************)
Evicted(tbl) ==
  {t \in DOMAIN tbl : tbl[t].destroy \/ (persistent /\ ~tbl[t].storable)}
Written(tbl) ==
  {t \in DOMAIN tbl : persistent /\ ~tbl[t].destroy /\ tbl[t].storable}
Deleted(tbl) ==
  {t \in DOMAIN tbl : persistent /\ tbl[t].destroy /\ tbl[t].storable}

reconcile ==
  /\ table' = [t \in DOMAIN table \ Evicted(table) |-> table[t]]
  /\ backend' = [t \in (DOMAIN backend \ Deleted(table)) \cup Written(table) |->
                   IF t \in Written(table) THEN table[t].data ELSE backend[t]]
  /\ last' = [Ran("reconcile") EXCEPT
                !.cnt = Cardinality(Deleted(table) \cap DOMAIN backend)]
  /\ UNCHANGED <<persistent, pc, id>>

(***************************************************************************)
(* Specifications.                                                         *)
(***************************************************************************)
\* Requests come in, get a handle and a record, and end.
Arrive(reqs, ids) ==
  \/ \E r \in reqs, cookie \in Cookies(ids) : new(r, cookie)
  \/ \E r \in reqs, token \in ids : new_loop(r, token)
  \/ \E r \in reqs : load_or_create(r)
  \/ \E r \in reqs : finish(r)

\* Spec: the handles' data operations on an in-memory store.
InitMemory == Init /\ ~persistent
Next ==
  \/ Arrive(Handles, Tokens)
  \/ \E r \in Handles : destroy(r)
  \/ \E r \in Handles, key \in Keys, ty \in Types : get(r, key, ty)
  \/ \E r \in Handles, key \in Keys, value \in Values : set(r, key, value)
  \/ \E r \in Handles, key \in Keys : remove(r, key)
  \/ \E r \in Handles : clear_all(r)
  \/ \E r \in Handles : count(r, TRUE)
  \/ reconcile

Spec == InitMemory /\ [][Next]_vars

\* SpecMint: requests arriving with and without cookies, over the whole id space.
\* Nothing is ever deleted from the table.
NextMint == Arrive(Requests, Uuids)

SpecMint == InitMemory /\ [][NextMint]_vars

\* SpecMintFair: SpecMint where a request inside the loop of new keeps turning it and
\* the random source is fair: no id is withheld forever from a loop that keeps drawing.
SpecMintFair ==
  /\ InitMemory
  /\ [][NextMint]_vars
  /\ \A r \in Requests, token \in Uuids : WF_vars(new_loop(r, token))

\* The one key and the one value of the two specifications below.
StoreKeys == {"a"}
StoreValues == {Str(<<"q", Quote>>)}
StoreTypes == {"String", "i64"}

\* SpecHandle: every operation of the handle on an in-memory store, flags included.
NextHandle ==
  \/ Arrive(Handles, Tokens)
  \/ \E r \in Handles : destroy(r)
  \/ \E r \in Handles, b \in BOOLEAN : set_longterm(r, b)
  \/ \E r \in Handles, b \in BOOLEAN : set_store(r, b)
  \/ \E r \in Handles, key \in StoreKeys, ty \in StoreTypes : get(r, key, ty)
  \/ \E r \in Handles, key \in StoreKeys, value \in StoreValues : set(r, key, value)
  \/ \E r \in Handles, key \in StoreKeys : remove(r, key)
  \/ \E r \in Handles : clear_all(r)
  \/ \E r \in Handles : count(r, TRUE)
  \/ reconcile

SpecHandle == InitMemory /\ [][NextHandle]_vars

\* SpecStore: a store with a durable backend, whose calls may fail.
InitPersistent == Init /\ persistent
NextStore ==
  \/ Arrive(Handles, Tokens)
  \/ \E r \in Handles : destroy(r)
  \/ \E r \in Handles, b \in BOOLEAN : set_store(r, b)
  \/ \E r \in Handles, key \in StoreKeys, value \in StoreValues : set(r, key, value)
  \/ \E r \in Handles : clear_all(r)
  \/ \E r \in Handles, ok \in BOOLEAN : clear_all_store(r, ok)
  \/ \E r \in Handles, ok \in BOOLEAN : count(r, ok)
  \/ reconcile

SpecStore == InitPersistent /\ [][NextStore]_vars

(***************************************************************************)
(* Properties under Spec: data operations.                                 *)
(***************************************************************************)
\* Request q holds a usable handle on token u.
Holds(q, u) == pc[q] = "ready" /\ id[q] = u
\* The table has a record for token u.
Present(u) == UuidString(u) \in DOMAIN table
\* The record of token u.
Record(tbl, u) == tbl[UuidString(u)]
\* What get::<ty>(k) returns on a table through a handle on token u.
Get(tbl, u, k, ty) == get_tap(tbl, UuidString(u), k, ty).ret
\* This step is set(k, v) through a handle on token u, whose record is in the table.
SetStep(u, k, v) ==
  /\ last'.op = "set"
  /\ last'.tok = u
  /\ Present(u)
  /\ table' = set_tap(table, UuidString(u), k, v).table
\* This step is remove(k) through a handle on token u.
RemoveStep(u, k) ==
  /\ last'.op = "remove"
  /\ last'.tok = u
  /\ table' = remove_tap(table, UuidString(u), k).table
  /\ last'.res = remove_tap(table, UuidString(u), k).ret

\* C1 as stated: set(k, v) of a serializable v on a present record makes the next
\* get::<type of v>(k) on the same token return Some(v).
C1_RoundTripEveryValue ==
  [][last'.op = "set" => \A u \in Tokens, k \in Keys, v \in Values :
       (SetStep(u, k, v) /\ to_string(v).ok) => Get(table', u, k, v.ty) = Some(v)]_vars

\* C1 amended: the next get::<type of v>(k) returns Some(v) when v's JSON text reads
\* back as v, and None for a non-finite float, which is written as null.
C1_RoundTrip ==
  [][last'.op = "set" => \A u \in Tokens, k \in Keys, v \in Values :
       (SetStep(u, k, v) /\ to_string(v).ok)
         => Get(table', u, k, v.ty) =
              IF v.ty = "f64" /\ v.cls # "finite" THEN None ELSE Some(v)]_vars

\* A set has just run and a handle on a record reads back the integer under "a" but
\* nothing for the infinite float stored under "b".
C1_Witness ==
  /\ last.op = "set"
  /\ last.res.some
  /\ Get(table, last.tok, "a", "i64") = Some(I64(0 - 7))
  /\ "b" \in DOMAIN Record(table, last.tok).data
  /\ Get(table, last.tok, "b", "f64") = None

\* C2: whatever the record held under k, after remove(k) the next get(k) on the same
\* token returns None for every type, and remove ends normally, also when k is absent
\* or the record is missing.
C2_Removal ==
  [][last'.op = "remove" => \A u \in Tokens, k \in Keys :
       RemoveStep(u, k)
         => /\ pc' = pc
            /\ \A ty \in Types : Get(table', u, k, ty) = None
            /\ (Present(u) /\ k \notin DOMAIN Record(table, u).data => table' = table)]_vars

\* A remove has just taken a stored value out of a record that holds another key.
C2_Witness ==
  /\ last.op = "remove"
  /\ last.res.some
  /\ Present(last.tok)
  /\ DOMAIN Record(table, last.tok).data = {"b"}
  /\ \A ty \in Types : Get(table, last.tok, "a", ty) = None

\* This step is destroy() through a handle on token u, whose record is in the table.
DestroyStep(u) ==
  /\ last'.op = "destroy"
  /\ last'.tok = u
  /\ Present(u)

\* C3: destroy() sets the destroy flag of the handle's record and nothing else: the
\* record stays in the table with its data, so get returns what it returned before;
\* a record marked destroy stays, marked, through every step but a reconciliation
\* pass; a set on a marked record writes its value, which get then reads.
C3_DestroyDeferred ==
  [][/\ last'.op = "destroy" => \A u \in Tokens :
          DestroyStep(u)
            => /\ DOMAIN table' = DOMAIN table
               /\ Record(table', u).destroy
               /\ Record(table', u).data = Record(table, u).data
               /\ Record(table', u).longterm = Record(table, u).longterm
               /\ Record(table', u).storable = Record(table, u).storable
               /\ \A t \in DOMAIN table \ {UuidString(u)} : table'[t] = table[t]
               /\ \A k \in Keys, ty \in Types :
                    Get(table', u, k, ty) = Get(table, u, k, ty)
     /\ last'.op # "reconcile" => \A t \in DOMAIN table :
          table[t].destroy => t \in DOMAIN table' /\ table'[t].destroy
     /\ last'.op = "set" => \A u \in Tokens, k \in Keys, v \in Values :
          (SetStep(u, k, v) /\ Record(table, u).destroy)
            => /\ k \in DOMAIN Record(table', u).data
               /\ Record(table', u).data[k] = set_value(v)
               /\ Get(table', u, k, v.ty) = from_str(v.ty, set_value(v))]_vars

\* A set has just written to a record that is marked destroy, and get reads the value.
C3_Witness ==
  /\ last.op = "set"
  /\ last.res.some
  /\ Record(table, last.tok).destroy
  /\ Get(table, last.tok, "a", "i64") = Some(I64(0 - 7))

\* C7 as stated: sets from several handles on distinct keys of one token all take
\* effect.  A set runs under the record's exclusive access, so concurrent sets run one
\* after the other in some order; each leaves get(k_i) = Some(v_i) for its own key and
\* leaves what get returns for every other key as it was.
C7_AllSetsVisible ==
  [][last'.op = "set" => \A u \in Tokens, k \in Keys, v \in Values :
       (SetStep(u, k, v) /\ to_string(v).ok)
         => /\ Get(table', u, k, v.ty) = Some(v)
            /\ \A k2 \in Keys \ {k}, ty \in Types :
                 Get(table', u, k2, ty) = Get(table, u, k2, ty)]_vars

\* C7 amended: each set leaves its own key with the text of v_i, which get reads as
\* Some(v_i) when that text reads back as v_i (C1), and leaves every other key of the
\* record, and what get returns for it, as it was.
C7_NoLostUpdate ==
  [][last'.op = "set" => \A u \in Tokens, k \in Keys, v \in Values :
       (SetStep(u, k, v) /\ to_string(v).ok)
         => /\ Record(table', u).data[k] = to_string(v).text
            /\ (from_str(v.ty, to_string(v).text) = Some(v)
                  => Get(table', u, k, v.ty) = Some(v))
            /\ DOMAIN Record(table', u).data = DOMAIN Record(table, u).data \cup {k}
            /\ \A k2 \in DOMAIN Record(table, u).data \ {k} :
                 Record(table', u).data[k2] = Record(table, u).data[k2]
            /\ \A k2 \in Keys \ {k}, ty \in Types :
                 Get(table', u, k2, ty) = Get(table, u, k2, ty)]_vars

\* Two handles are on one token, a set has just run, and both keys read back.
C7_Witness ==
  /\ last.op = "set"
  /\ last.res.some
  /\ \E r, q \in Handles :
       /\ r # q
       /\ Holds(r, last.tok)
       /\ Holds(q, last.tok)
       /\ Get(table, last.tok, "a", "i64") = Some(I64(0 - 7))
       /\ Get(table, last.tok, "b", "i64") = Some(I64(0 - 7))

\* C10: without persistence, the count a handle has just been given is the number of
\* records in the table, whatever their flags and whatever token the handle is on.
C10_MemoryCount ==
  (last.op = "count" /\ ~persistent) => last.cnt = Cardinality(DOMAIN table)

\* count has just returned 2 while a record marked destroy is loaded.
C10_Witness ==
  /\ last.op = "count"
  /\ ~persistent
  /\ last.cnt = 2
  /\ Present(last.tok)
  /\ \E t \in DOMAIN table : t # UuidString(last.tok) /\ table[t].destroy

(***************************************************************************)
(* Properties under SpecMint: the id of a new handle.                      *)
(***************************************************************************)
\* This step is the turn of new's loop in which request r breaks out with its token.
MintStep(r) == last'.op = "minted" /\ pc[r] = "mint" /\ pc'[r] = "minted"
\* This step is the first part of new for request r: the cookie is read.
CookieStep(r) == last'.op = "new" /\ pc[r] = "idle" /\ pc'[r] # "idle"

\* C5: nothing is deleted under SpecMint, so every token minted so far is either a key
\* of the table or the id of a handle that new has returned and whose record is not
\* loaded yet; a newly minted token differs from all of them.
C5_MintedTokensDistinct ==
  [][last'.op = "minted" => \A r \in Requests :
       MintStep(r)
         => /\ UuidString(id'[r]) \notin DOMAIN table
            /\ \A q \in Requests \ {r} : pc[q] = "minted" => id[q] # id'[r]]_vars

\* C6: new takes the id of the cookie only when the table has a record for it; with
\* no cookie, an unparsable one, or an id without a record, it goes on to mint.
C6_CookieIdNeedsRecord ==
  [][last'.op = "new" => \A r \in Requests :
       CookieStep(r)
         => /\ pc'[r] \in {"resolved", "mint"}
            /\ (pc'[r] = "resolved" => UuidString(id'[r]) \in DOMAIN table)]_vars

(***************************************************************************)
(* Properties under SpecHandle: a handle whose record is missing.          *)
(***************************************************************************)
TapOps == {"get", "set", "remove", "destroy", "set_longterm", "set_store"}

\* C8: get, set, remove, destroy, set_longterm and set_store through a handle whose
\* token has no record return None, create no record, leave table and backend as they
\* are, and leave every request where it was.
C8_MissingRecordNoOp ==
  [][(last'.op \in TapOps /\ ~Present(last'.tok))
       => /\ last'.res = None
          /\ table' = table
          /\ backend' = backend
          /\ pc' = pc
          /\ id' = id]_vars

\* A handle has just run set_store on a token that has no record.
C8_Witness ==
  /\ last.op = "set_store"
  /\ last.tok # NoId
  /\ ~Present(last.tok)
  /\ last.res = None
  /\ \E r \in Handles : Holds(r, last.tok)

(***************************************************************************)
(* Properties under SpecStore: the durable backend.                        *)
(***************************************************************************)
\* C4: destroy() on a present record marks it; the mark stays until a reconciliation
\* pass; the pass removes every marked record from the table and, when the store is
\* persistent and the record storable, its durable record from the backend.
C4_DestroyedAfterReconcile ==
  [][/\ last'.op = "destroy" => \A u \in Tokens :
          DestroyStep(u) => UuidString(u) \in DOMAIN table' /\ Record(table', u).destroy
     /\ last'.op # "reconcile" => \A t \in DOMAIN table :
          table[t].destroy => t \in DOMAIN table' /\ table'[t].destroy
     /\ last'.op = "reconcile" => \A t \in DOMAIN table :
          table[t].destroy
            => /\ t \notin DOMAIN table'
               /\ (persistent /\ table[t].storable => t \notin DOMAIN backend')]_vars

\* A reconciliation pass has just deleted a durable record, and a handle is left on a
\* token that has neither a record in the table nor one in the backend.
C4_Witness ==
  /\ last.op = "reconcile"
  /\ last.cnt > 0
  /\ \E r \in Handles : /\ pc[r] = "ready"
                        /\ ~Present(id[r])
                        /\ UuidString(id[r]) \notin DOMAIN backend

\* C9: no operation of a handle panics when a backend call fails.
C9_NoPanic == \A r \in Requests : pc[r] # "panicked"

\* C11: with persistence, count() returns the number of durable records when the
\* backend's count call succeeds, whatever the table holds, and 0 when the call
\* fails; the caller is given a number either way and goes on.
C11_PersistentCount ==
  [][last'.op = "count" => \A r \in Handles, ok \in BOOLEAN :
       (persistent /\ count(r, ok))
         => /\ last'.cnt = IF ok THEN Cardinality(DOMAIN backend) ELSE 0
            /\ pc'[r] = "ready"]_vars

\* count has just returned the one durable record while the table holds two.
C11_Witness ==
  /\ last.op = "count"
  /\ persistent
  /\ last.cnt = 1
  /\ Cardinality(DOMAIN backend) = 1
  /\ Cardinality(DOMAIN table) = 2

\* C12: clear_all() through a handle on token T empties the data of T's record and
\* changes nothing else in memory: T's flags, the set of loaded tokens and every
\* other record stay as they were, and this first part leaves the backend alone.
\* With persistence, the backend clear that follows, when it succeeds, deletes the
\* durable records of every session, and changes nothing in memory.
C12_ClearAllScope ==
  [][/\ last'.op = "clear_all" => \A u \in Tokens :
          (last'.tok = u /\ Present(u))
            => /\ DOMAIN table' = DOMAIN table
               /\ Record(table', u) = [Record(table, u) EXCEPT !.data = EmptyData]
               /\ \A t \in DOMAIN table \ {UuidString(u)} : table'[t] = table[t]
               /\ backend' = backend
               /\ \A r \in Handles :
                    pc'[r] # pc[r] => persistent /\ pc'[r] = "clear_store"
     /\ last'.op = "clear_store" =>
          /\ table' = table
          /\ \A r \in Handles :
               (pc[r] = "clear_store" /\ pc'[r] = "ready") => DOMAIN backend' = {}]_vars

\* A backend clear has just deleted the durable records of both tokens, on behalf of
\* a handle whose own record is empty, while the other token's record keeps its data
\* in memory.
C12_Witness ==
  /\ last.op = "clear_store"
  /\ last.cnt = 2
  /\ DOMAIN backend = {}
  /\ Present(last.tok)
  /\ Record(table, last.tok).data = EmptyData
  /\ \E t \in DOMAIN table : t # UuidString(last.tok) /\ DOMAIN table[t].data # {}

(***************************************************************************)
(* Properties under Spec: writes of set.                                   *)
(***************************************************************************)
\* C13: set(k, v) on a record that already holds the text of v under k, as it does
\* after an earlier set(k, v) with no change to k in between, inserts nothing and
\* leaves the whole table, the record's data and flags included, as it was.
C13_OverwriteIdempotent ==
  [][last'.op = "set" => \A u \in Tokens, k \in Keys, v \in Values :
       (/\ SetStep(u, k, v)
        /\ k \in DOMAIN Record(table, u).data
        /\ Record(table, u).data[k] = set_value(v))
         => /\ last'.cnt = 0
            /\ table' = table
            /\ backend' = backend]_vars

\* A set has just run on a record, inserted nothing, and the record holds both keys.
C13_Witness ==
  /\ last.op = "set"
  /\ last.res.some
  /\ last.cnt = 0
  /\ DOMAIN Record(table, last.tok).data = Keys

(***************************************************************************)
(* Properties under SpecStore: records that are not storable.              *)
(***************************************************************************)
\* C14 as stated: a reconciliation pass that meets a record whose storable flag is
\* false leaves the backend without a record for that token, whatever went before.
C14_NoDurableRecordLeft ==
  [][last'.op = "reconcile" => \A t \in DOMAIN table :
       ~table[t].storable => t \notin DOMAIN backend']_vars

\* C14 amended: set_store(false) on a present record clears its storable flag and
\* changes nothing else; the flag stays cleared until another set_store; a
\* reconciliation pass that meets the record with the flag cleared drops it from the
\* table and neither writes nor deletes its durable record, so the backend holds a
\* record for the token afterwards exactly if it held one before, unchanged.
C14_NonStorableNotWritten ==
  [][/\ last'.op = "set_store" => \A r \in Handles :
          (set_store(r, FALSE) /\ Present(id[r]))
            => /\ table' = [table EXCEPT ![Key(r)].storable = FALSE]
               /\ backend' = backend
     /\ last'.op \notin {"set_store", "reconcile"} => \A t \in DOMAIN table :
          ~table[t].storable => t \in DOMAIN table' /\ ~table'[t].storable
     /\ last'.op = "reconcile" => \A t \in DOMAIN table :
          ~table[t].storable
            => /\ t \notin DOMAIN table'
               /\ (t \in DOMAIN backend' <=> t \in DOMAIN backend)
               /\ (t \in DOMAIN backend => backend'[t] = backend[t])]_vars

\* A reconciliation pass has just run and deleted nothing; a handle is on a token
\* whose record is gone from the table while the backend still holds the durable
\* record written when the record was storable.
C14_Witness ==
  /\ last.op = "reconcile"
  /\ last.cnt = 0
  /\ \E r \in Handles : /\ pc[r] = "ready"
                        /\ ~Present(id[r])
                        /\ UuidString(id[r]) \in DOMAIN backend
                        /\ DOMAIN backend[UuidString(id[r])] # {}

(***************************************************************************)
(* Properties under SpecHandle: get without a value.                       *)
(***************************************************************************)
\* C15: get::<T>(k) on a present record returns None when the record holds nothing
\* under k and when the text under k is not the JSON text of a T; in both cases the
\* table and the backend are left as they were and the request goes on.
C15_GetNoValue ==
  [][last'.op = "get" => \A r \in Handles, k \in StoreKeys, ty \in StoreTypes :
       (/\ get(r, k, ty)
        /\ Present(id[r])
        /\ \/ k \notin DOMAIN Record(table, id[r]).data
           \/ from_str(ty, Record(table, id[r]).data[k]) = None)
         => /\ last'.res = None
            /\ table' = table
            /\ backend' = backend
            /\ pc' = pc
            /\ pc'[r] = "ready"]_vars

\* A get has just returned None from a record that holds a string under the key: the
\* text is there and reads back as a String, not as an i64.
C15_Witness ==
  /\ last.op = "get"
  /\ last.res = None
  /\ Present(last.tok)
  /\ "a" \in DOMAIN Record(table, last.tok).data
  /\ Get(table, last.tok, "a", "String") = Some(Str(<<"q", Quote>>))
  /\ Get(table, last.tok, "a", "i64") = None

(***************************************************************************)
(* Properties under SpecMintFair: the loop of new.                         *)
(***************************************************************************)
\* Every id of the id space is a key of the table.
NoUnusedId == \A u \in Uuids : UuidString(u) \in DOMAIN table

\* C16: a turn of the loop whose candidate is a key of the table leaves the request
\* in the loop without an id; the turn that leaves the loop does so with a candidate
\* that is no key of the table at that moment; and with a fair random source a
\* request in the loop leaves it unless every id of the id space is in use.
C16_MintTerminates ==
  /\ [][\A r \in Requests :
          /\ (pc[r] = "mint" /\ pc'[r] # "mint")
               => /\ pc'[r] = "minted"
                  /\ id'[r] \in Uuids
                  /\ ~contains_key(table, UuidString(id'[r]))
          /\ (last'.op = "collision" /\ pc[r] = "mint")
               => pc'[r] = "mint" /\ id'[r] = id[r]]_vars
  /\ \A r \in Requests : (pc[r] = "mint") ~> (pc[r] = "minted" \/ NoUnusedId)

\* A request has just left the loop with the only id that was not in use.
C16_Witness ==
  /\ last.op = "minted"
  /\ Cardinality(DOMAIN table) = NumUuids - 1
  /\ \E r \in Requests : /\ pc[r] = "minted"
                         /\ ~contains_key(table, UuidString(id[r]))

(***************************************************************************)
(* Properties under SpecHandle: the records of other tokens.               *)
(***************************************************************************)
HandleOps == TapOps \cup {"clear_all"}
\* The table cut down to the record of token u, if it has one.
Own(tbl, u) == [t \in DOMAIN tbl \cap {UuidString(u)} |-> tbl[t]]

\* C17: get, set, remove, clear_all, destroy, set_longterm and set_store through a
\* handle on token T load and unload no record and leave the record of every other
\* token, data and flags, as it was; what get and remove return is what they return
\* on a table that holds T's record alone.
C17_OtherRecordsUntouched ==
  [][last'.op \in HandleOps =>
       /\ DOMAIN table' = DOMAIN table
       /\ \A t \in DOMAIN table \ {UuidString(last'.tok)} : table'[t] = table[t]
       /\ last'.op = "get" => \E k \in StoreKeys, ty \in StoreTypes :
            last'.res = Get(Own(table, last'.tok), last'.tok, k, ty)
       /\ last'.op = "remove" => \E k \in StoreKeys :
            last'.res = remove_tap(Own(table, last'.tok), UuidString(last'.tok), k).ret]_vars

\* A remove has just emptied the record of its handle's token, and the record of the
\* other token still holds its data and its flags.
C17_Witness ==
  /\ last.op = "remove"
  /\ last.res.some
  /\ DOMAIN Record(table, last.tok).data = {}
  /\ \E t \in DOMAIN table :
       /\ t # UuidString(last.tok)
       /\ DOMAIN table[t].data = {"a"}
       /\ table[t].longterm
       /\ ~table[t].storable

(***************************************************************************)
(* Properties under SpecStore: clear_all and the backend.                  *)
(***************************************************************************)
\* Request r is the one request inside clear_all, which has just done its in-memory
\* part on a token without a record, and this step ends its backend clear.
ClearStoreOfAbsent(r) ==
  /\ last.op = "clear_all"
  /\ ~Present(last.tok)
  /\ id[r] = last.tok
  /\ pc[r] = "clear_store"
  /\ \A q \in Handles \ {r} : pc[q] # "clear_store"
  /\ last'.op = "clear_store"
  /\ pc'[r] # "clear_store"

\* C18: clear_all() through a handle whose token has no record in the table changes
\* neither the table nor the backend, in its in-memory part and in the backend clear
\* that follows it on a persistent store.
C18_ClearAllAbsentNoOp ==
  [][/\ (last'.op = "clear_all" /\ ~Present(last'.tok))
          => table' = table /\ backend' = backend
     /\ \A r \in Handles :
          ClearStoreOfAbsent(r) => table' = table /\ backend' = backend]_vars

\* C19: while a handle is inside clear_all, between its in-memory clear and the end of
\* its backend clear, no operation of another handle on the same token changes the
\* token's record; so when the clear_all ends the record is as clear_all left it.
C19_ClearAllLinearized ==
  [][last'.op \in HandleOps => \A r \in Handles :
       (/\ pc[r] = "clear_store"
        /\ last'.tok = id[r]
        /\ Present(id[r]))
         => Record(table', id[r]) = Record(table, id[r])]_vars

(***************************************************************************)
(* Properties under SpecHandle: the set of loaded tokens.                  *)
(***************************************************************************)
\* The steps of AxumSession::new and of the handle's operations.
SessionOps == HandleOps \cup {"count", "new", "minted", "collision"}

\* C20: constructing a handle with new, and get, set, remove, clear_all, destroy,
\* set_longterm, set_store and count through a handle, insert no record into the
\* table and remove none; so the number count() returns on a store without
\* persistence is the same after such a step as before it.
C20_LoadedTokensFixed ==
  [][last'.op \in SessionOps =>
       /\ DOMAIN table' = DOMAIN table
       /\ count_value(FALSE, table', backend', TRUE) = count_value(FALSE, table, backend, TRUE)
       /\ last'.op = "count" => last'.cnt = count_value(FALSE, table, backend, TRUE)]_vars

\* A handle has just been minted for a token that has no record, next to a handle
\* whose record is loaded and marked destroy: the table holds that one record.
C20_Witness ==
  /\ last.op = "minted"
  /\ \E r, q \in Handles :
       /\ pc[r] = "minted"
       /\ ~Present(id[r])
       /\ Holds(q, id[q])
       /\ Present(id[q])
       /\ Record(table, id[q]).destroy
       /\ DOMAIN table = {UuidString(id[q])}

====
